---------------------------- MODULE Spec2Model ----------------------------
(***************************************************************************)
(* A model of the sequent prover of mel-m7/prover: the expression algebra  *)
(* of logic_language.py, unify / unify_list and the Sequent class of       *)
(* prover.py, and the search loop prove_sequent.                           *)
(*                                                                         *)
(* Representation.  An expression object is a record                       *)
(*     [tag, name, kids, time, obj]                                        *)
(* tag is the Python class, kids the ordered children (terms of a Functor  *)
(* or Predicate, <<formula>> of Not, <<formula1, formula2>> of a binary    *)
(* operation, <<variable, formula>> of a quantification).  Python objects  *)
(* are shared and mutable in one attribute only, .time:                    *)
(*   - a Variable or Term object is returned as it is by replace (it is    *)
(*     shared between a quantifier body and all its instances), so its     *)
(*     .time lives in the heap `time`, at address obj;                     *)
(*   - a Functor object is rebuilt by every replace and is stamped only    *)
(*     while it is fresh, so its .time is the field time of the record;    *)
(*   - the other classes have no .time attribute at all.                   *)
(* __eq__ and __str__ never read .time, so Eq and Str ignore time and obj. *)
(* The printed symbols that are not ASCII are written in ASCII:            *)
(*   not "~", and " & ", or " | ", implies " -> ", forall "!", exists "?", *)
(*   turnstile "|-".  Names are identifiers, so this renaming is one to    *)
(*   one.  hash(x) is hash(str(x)) in every class that defines __hash__;   *)
(*   Python's string hash is taken to be injective, so a hash is modelled  *)
(*   by the printed string.                                                *)
(***************************************************************************)
EXTENDS Integers, Sequences, FiniteSets, TLC

VARIABLES
    input,      \* what prove_formula was called with: [name, axioms, goal]
    frontier,   \* prove_sequent: the list frontier
    proven,     \* prove_sequent: the set proven
    sibs,       \* the sibling set objects, sibs[i] the set at address i
    time,       \* heap: time[obj] is the .time of Variable/Term object obj
    born,       \* ghost: born[obj] the search depth that created object obj
    pc,         \* position in the main loop: "dequeue", "closure", "expand", "done"
    old_sequent,\* prove_sequent: the sequent dequeued by this iteration
    result,     \* "running", "provable", "not_provable", "budget" or an exception
    log,        \* ghost: one record per iteration of the main loop
    args,       \* a library call: the arguments drawn by Init
    out         \* a library call: what the called function returned

vars == <<input, frontier, proven, sibs, time, born, pc, old_sequent, result, log, args, out>>

-----------------------------------------------------------------------------
(* Constructors *)

Node(tag, name, kids, t, obj) ==
    [tag |-> tag, name |-> name, kids |-> kids, time |-> t, obj |-> obj]

\* Variable(name): Alphabet.__init__ sets time = 0; obj is the object's address
Variable(name, obj) == Node("Variable", name, <<>>, 0, obj)

Term(name, obj) == Node("Term", name, <<>>, 0, obj)

\* Functor.__init__ sets self.time = 0
Functor(name, terms) == Node("Functor", name, terms, 0, 0)

\* a Functor whose .time was set afterwards
FunctorAt(name, terms, t) == Node("Functor", name, terms, t, 0)

Predicate(name, terms) == Node("Predicate", name, terms, 0, 0)

Not(formula) == Node("Not", "", <<formula>>, 0, 0)

And(formula1, formula2) == Node("And", "", <<formula1, formula2>>, 0, 0)

Or(formula1, formula2) == Node("Or", "", <<formula1, formula2>>, 0, 0)

Implies(formula1, formula2) == Node("Implies", "", <<formula1, formula2>>, 0, 0)

ForAll(variable, formula) == Node("ForAll", "", <<variable, formula>>, 0, 0)

ThereExists(variable, formula) == Node("ThereExists", "", <<variable, formula>>, 0, 0)

IsAlphabet(e) == e.tag \in {"Variable", "Term"}

IsFormulaClass(e) == e.tag \in {"Functor", "Predicate"}

IsBinary(e) == e.tag \in {"And", "Or", "Implies"}

IsQuantification(e) == e.tag \in {"ForAll", "ThereExists"}

\* the classes whose objects have an attribute .time
HasTime(e) == e.tag \in {"Variable", "Term", "Functor"}

\* e.time when no object is ever stamped: Alphabet.__init__ and Functor.__init__
\* set it to 0
TimeOf_Unstamped(e) == 0

\* e.time, for an object that has the attribute
TimeOf(e) == IF IsAlphabet(e) THEN time[e.obj] ELSE e.time

-----------------------------------------------------------------------------
(* __eq__ *)

RECURSIVE Eq(_, _)

\* Variable.__eq__ / Term.__eq__: isinstance(other, <same class>) and names equal
Alphabet_eq(self, other) == other.tag = self.tag /\ self.name = other.name

\* Formula.__eq__: name, number of terms, terms pairwise
Formula_eq(self, other) ==
    /\ self.name = other.name
    /\ Len(self.kids) = Len(other.kids)
    /\ \A i \in 1..Len(self.kids) : Eq(self.kids[i], other.kids[i])

\* Functor.__eq__ / Predicate.__eq__: isinstance and Formula.__eq__
FunctorPredicate_eq(self, other) == other.tag = self.tag /\ Formula_eq(self, other)

Not_eq(self, other) == other.tag = "Not" /\ Eq(self.kids[1], other.kids[1])

BinaryOperation_eq(self, other) ==
    Eq(self.kids[1], other.kids[1]) /\ Eq(self.kids[2], other.kids[2])

\* And.__eq__ / Or.__eq__ / Implies.__eq__
Binary_eq(self, other) == other.tag = self.tag /\ BinaryOperation_eq(self, other)

Quantification_eq(self, other) ==
    Eq(self.kids[1], other.kids[1]) /\ Eq(self.kids[2], other.kids[2])

\* ForAll.__eq__ / ThereExists.__eq__
Quantifier_eq(self, other) == other.tag = self.tag /\ Quantification_eq(self, other)

\* self == other: the __eq__ of self's class
Eq(self, other) ==
    CASE IsAlphabet(self) -> Alphabet_eq(self, other)
      [] IsFormulaClass(self) -> FunctorPredicate_eq(self, other)
      [] self.tag = "Not" -> Not_eq(self, other)
      [] IsBinary(self) -> Binary_eq(self, other)
      [] IsQuantification(self) -> Quantifier_eq(self, other)

-----------------------------------------------------------------------------
(* __str__ and __hash__ *)

RECURSIVE Str(_)

RECURSIVE JoinStr(_, _)
\* sep.join([str(x) for x in xs])
JoinStr(xs, sep) ==
    IF Len(xs) = 0 THEN ""
    ELSE IF Len(xs) = 1 THEN Str(xs[1])
    ELSE Str(xs[1]) \o sep \o JoinStr(Tail(xs), sep)

\* Alphabet.__str__
Alphabet_str(self) == self.name

\* Formula.__str__
Formula_str(self) ==
    IF Len(self.kids) = 0 THEN self.name
    ELSE self.name \o "(" \o JoinStr(self.kids, ", ") \o ")"

Not_str(self) == "~" \o Str(self.kids[1])

\* And.__str__: '{} /\ {}', without parentheses
And_str(self) == Str(self.kids[1]) \o " & " \o Str(self.kids[2])

Or_str(self) == "(" \o Str(self.kids[1]) \o " | " \o Str(self.kids[2]) \o ")"

Implies_str(self) == "(" \o Str(self.kids[1]) \o " -> " \o Str(self.kids[2]) \o ")"

ForAll_str(self) == "(!" \o Str(self.kids[1]) \o ". " \o Str(self.kids[2]) \o ")"

ThereExists_str(self) == "(?" \o Str(self.kids[1]) \o ". " \o Str(self.kids[2]) \o ")"

Str(self) ==
    CASE IsAlphabet(self) -> Alphabet_str(self)
      [] IsFormulaClass(self) -> Formula_str(self)
      [] self.tag = "Not" -> Not_str(self)
      [] self.tag = "And" -> And_str(self)
      [] self.tag = "Or" -> Or_str(self)
      [] self.tag = "Implies" -> Implies_str(self)
      [] self.tag = "ForAll" -> ForAll_str(self)
      [] self.tag = "ThereExists" -> ThereExists_str(self)

\* Functor defines __eq__ and no __hash__: Python makes the class unhashable
Hashable(self) == self.tag # "Functor"

\* __hash__: hash(str(self)), in every class that defines it
Hash(self) == Str(self)

\* x in d for a dict or set d: equal hash, then __eq__
SameKey(x, y) == Hash(x) = Hash(y) /\ Eq(x, y)

-----------------------------------------------------------------------------
(* free_variables, free_terms, occurs, replace *)

RECURSIVE free_variables(_)
\* the set of free Variable objects, as the set of their names
free_variables(self) ==
    CASE self.tag = "Variable" -> {self.name}
      [] self.tag = "Term" -> {}
      [] IsFormulaClass(self) ->
            UNION {free_variables(self.kids[i]) : i \in 1..Len(self.kids)}
      [] self.tag = "Not" -> free_variables(self.kids[1])
      [] IsBinary(self) ->
            free_variables(self.kids[1]) \cup free_variables(self.kids[2])
      [] IsQuantification(self) ->
            free_variables(self.kids[2]) \
                (IF self.kids[1].tag = "Variable" THEN {self.kids[1].name} ELSE {})

RECURSIVE free_terms(_)
\* the set of free Term objects, as the set of their names
free_terms(self) ==
    CASE self.tag = "Variable" -> {}
      [] self.tag = "Term" -> {self.name}
      [] IsFormulaClass(self) ->
            UNION {free_terms(self.kids[i]) : i \in 1..Len(self.kids)}
      [] self.tag = "Not" -> free_terms(self.kids[1])
      [] IsBinary(self) -> free_terms(self.kids[1]) \cup free_terms(self.kids[2])
      [] IsQuantification(self) -> free_terms(self.kids[2])

RECURSIVE occurs(_, _)

\* occurs with Alphabet.occurs comparing the name alone: a Variable named like
\* the unification term counts as an occurrence
occurs_ByName(self, unification_term) ==
    CASE IsAlphabet(self) -> self.name = unification_term.name
      [] IsFormulaClass(self) ->
            \E i \in 1..Len(self.kids) : occurs(self.kids[i], unification_term)
      [] self.tag = "Not" -> occurs(self.kids[1], unification_term)
      [] IsBinary(self) ->
            occurs(self.kids[1], unification_term) \/ occurs(self.kids[2], unification_term)
      [] IsQuantification(self) -> occurs(self.kids[2], unification_term)

occurs(self, unification_term) ==
    CASE self.tag = "Variable" -> FALSE
      [] self.tag = "Term" -> Eq(self, unification_term)
      [] IsFormulaClass(self) ->
            \E i \in 1..Len(self.kids) : occurs(self.kids[i], unification_term)
      [] self.tag = "Not" -> occurs(self.kids[1], unification_term)
      [] IsBinary(self) ->
            occurs(self.kids[1], unification_term) \/ occurs(self.kids[2], unification_term)
      [] IsQuantification(self) -> occurs(self.kids[2], unification_term)

RECURSIVE replace(_, _, _)

\* replace that stops at the first child it changes: the later children are
\* kept as they are
replace_FirstChild(self, current, new) ==
    IF Eq(self, current) THEN new
    ELSE IF IsAlphabet(self) THEN self
    ELSE LET first == {i \in 1..Len(self.kids) :
                          replace(self.kids[i], current, new) # self.kids[i]}
         IN  Node(self.tag, self.name,
                  [i \in 1..Len(self.kids) |->
                      IF first # {} /\ \A j \in first : i <= j
                      THEN replace(self.kids[i], current, new)
                      ELSE self.kids[i]],
                  0, 0)

\* self.replace(current, new).  Alphabet.replace returns the object self itself;
\* every other class builds a new object (a new Functor has time 0).
replace(self, current, new) ==
    IF Eq(self, current) THEN new
    ELSE CASE IsAlphabet(self) -> self
           [] self.tag = "Functor" ->
                Functor(self.name,
                        [i \in 1..Len(self.kids) |-> replace(self.kids[i], current, new)])
           [] self.tag = "Predicate" ->
                Predicate(self.name,
                          [i \in 1..Len(self.kids) |-> replace(self.kids[i], current, new)])
           [] OTHER ->
                Node(self.tag, "",
                     [i \in 1..Len(self.kids) |-> replace(self.kids[i], current, new)],
                     0, 0)

RECURSIVE AlphabetObjects(_)
\* the addresses of the Variable and Term objects of a tree
AlphabetObjects(self) ==
    IF IsAlphabet(self) THEN {self.obj}
    ELSE UNION {AlphabetObjects(self.kids[i]) : i \in 1..Len(self.kids)}

RECURSIVE set_creation_time_tree(_, _)
\* set_creation_time(t), the part that writes the .time of the Functor objects
set_creation_time_tree(self, t) ==
    IF IsAlphabet(self) THEN self
    ELSE Node(self.tag, self.name,
              [i \in 1..Len(self.kids) |-> set_creation_time_tree(self.kids[i], t)],
              IF self.tag = "Functor" THEN t ELSE 0, 0)

\* set_creation_time(t), the part that writes the .time of the shared
\* Variable and Term objects: the heap after the call
set_creation_time_heap(self, t, heap) ==
    [o \in DOMAIN heap |-> IF o \in AlphabetObjects(self) THEN t ELSE heap[o]]

-----------------------------------------------------------------------------
(* unify and unify_list (prover.py).  A substitution is a Python dict, kept  *)
(* here as the sequence of its items in insertion order.  The result is      *)
(* [kind |-> "dict", map |-> items], [kind |-> "None"] for the failure       *)
(* sentinel, or [kind |-> "AttributeError"] when .time is read from an       *)
(* object of a class that has no such attribute.                             *)

Dict(items) == [kind |-> "dict", map |-> items]

None == [kind |-> "None", map |-> <<>>]

AttributeError == [kind |-> "AttributeError", map |-> <<>>]

Item(k, v) == [k |-> k, v |-> v]

\* substitution[k] = v
DictSet(substitution, k, v) ==
    IF \E i \in 1..Len(substitution) : SameKey(substitution[i].k, k)
    THEN [i \in 1..Len(substitution) |->
             IF SameKey(substitution[i].k, k) THEN Item(substitution[i].k, v)
             ELSE substitution[i]]
    ELSE Append(substitution, Item(k, v))

RECURSIVE DictUpdate(_, _)
\* for k, v in sub.items(): substitution[k] = v
DictUpdate(substitution, sub) ==
    IF Len(sub) = 0 THEN substitution
    ELSE DictUpdate(DictSet(substitution, sub[1].k, sub[1].v), Tail(sub))

RECURSIVE ReplaceAll(_, _)
\* for k, v in substitution.items(): a = a.replace(k, v)
ReplaceAll(a, substitution) ==
    IF Len(substitution) = 0 THEN a
    ELSE ReplaceAll(replace(a, substitution[1].k, substitution[1].v), Tail(substitution))

RECURSIVE unify(_, _)

\* unify, lines 5-8, with the comparison of the creation times turned round
unify_TermLeft_Reversed(term_a, term_b) ==
    IF occurs(term_b, term_a) THEN [kind |-> "None", map |-> <<>>]
    ELSE IF ~HasTime(term_b) THEN [kind |-> "AttributeError", map |-> <<>>]
    ELSE IF TimeOf(term_b) < TimeOf(term_a) THEN [kind |-> "None", map |-> <<>>]
    ELSE [kind |-> "dict", map |-> <<[k |-> term_a, v |-> term_b]>>]

\* unify, lines 5-8: term_a is a Term
unify_TermLeft(term_a, term_b) ==
    IF occurs(term_b, term_a) THEN None
    ELSE IF ~HasTime(term_b) THEN AttributeError
    ELSE IF TimeOf(term_b) > TimeOf(term_a) THEN None
    ELSE Dict(<<Item(term_a, term_b)>>)

\* unify, lines 9-12: term_b is a Term (and term_a is not)
unify_TermRight(term_a, term_b) ==
    IF occurs(term_a, term_b) THEN None
    ELSE IF ~HasTime(term_a) THEN AttributeError
    ELSE IF TimeOf(term_a) > TimeOf(term_b) THEN None
    ELSE Dict(<<Item(term_b, term_a)>>)

RECURSIVE unify_terms_NoPropagation(_, _, _, _)
\* unify, lines 23-35, without lines 27-29: the accumulated substitution is not
\* applied to the next pair of terms
unify_terms_NoPropagation(term_a, term_b, i, substitution) ==
    IF i > Len(term_a.kids) THEN [kind |-> "dict", map |-> substitution]
    ELSE LET sub == unify(term_a.kids[i], term_b.kids[i])
         IN  IF sub.kind # "dict" THEN sub
             ELSE unify_terms_NoPropagation(term_a, term_b, i + 1,
                                            DictUpdate(substitution, sub.map))

RECURSIVE unify_terms(_, _, _, _)
\* unify, lines 23-35: the loop over the terms, from index i on
unify_terms(term_a, term_b, i, substitution) ==
    IF i > Len(term_a.kids) THEN Dict(substitution)
    ELSE LET a == ReplaceAll(term_a.kids[i], substitution)
             b == ReplaceAll(term_b.kids[i], substitution)
             sub == unify(a, b)
         IN  IF sub.kind # "dict" THEN sub
             ELSE unify_terms(term_a, term_b, i + 1, DictUpdate(substitution, sub.map))

unify(term_a, term_b) ==
    IF term_a.tag = "Term" THEN unify_TermLeft(term_a, term_b)
    ELSE IF term_b.tag = "Term" THEN unify_TermRight(term_a, term_b)
    ELSE IF term_a.tag = "Variable" /\ term_b.tag = "Variable"
         THEN (IF Eq(term_a, term_b) THEN Dict(<<>>) ELSE None)
    ELSE IF \/ term_a.tag = "Functor" /\ term_b.tag = "Functor"
            \/ term_a.tag = "Predicate" /\ term_b.tag = "Predicate"
         THEN (IF term_a.name # term_b.name THEN None
               ELSE IF Len(term_a.kids) # Len(term_b.kids) THEN None
               ELSE unify_terms(term_a, term_b, 1, <<>>))
    ELSE None

RECURSIVE unify_list_from(_, _, _)
\* unify_list, lines 41-52: the loop over the pairs, from index i on
unify_list_from(pairs, i, substitution) ==
    IF i > Len(pairs) THEN Dict(substitution)
    ELSE LET a == ReplaceAll(pairs[i][1], substitution)
             b == ReplaceAll(pairs[i][2], substitution)
             sub == unify(a, b)
         IN  IF sub.kind # "dict" THEN sub
             ELSE unify_list_from(pairs, i + 1, DictUpdate(substitution, sub.map))

unify_list(pairs) == unify_list_from(pairs, 1, <<>>)

-----------------------------------------------------------------------------
(* class Sequent (prover.py).  left and right are Python dicts from formula  *)
(* to expansion counter, kept as the sequence of their items in insertion    *)
(* order; siblings is 0 for None, else the address of a set object in sibs.  *)

Sequent(left, right, siblings, depth) ==
    [left |-> left, right |-> right, siblings |-> siblings, depth |-> depth]

Entry(f, d) == [f |-> f, d |-> d]

\* formula in d
HasKey(d, formula) == \E i \in 1..Len(d) : SameKey(d[i].f, formula)

\* d[formula], for a key of d
Get(d, formula) == d[CHOOSE i \in 1..Len(d) : SameKey(d[i].f, formula)].d

\* del d[formula]
Del(d, formula) ==
    LET keep == {i \in 1..Len(d) : ~SameKey(d[i].f, formula)}
        RECURSIVE Pick(_)
        Pick(i) == IF i > Len(d) THEN <<>>
                   ELSE IF i \in keep THEN <<d[i]>> \o Pick(i + 1) ELSE Pick(i + 1)
    IN  Pick(1)

\* d[formula] = n: an existing item keeps its place and its key object
Put(d, formula, n) ==
    IF HasKey(d, formula)
    THEN [i \in 1..Len(d) |-> IF SameKey(d[i].f, formula) THEN Entry(d[i].f, n) ELSE d[i]]
    ELSE Append(d, Entry(formula, n))

Keys(d) == {d[i].f : i \in 1..Len(d)}

Sequent_free_variables(self) ==
    UNION {free_variables(f) : f \in Keys(self.left) \cup Keys(self.right)}

Sequent_free_terms(self) ==
    UNION {free_terms(f) : f \in Keys(self.left) \cup Keys(self.right)}

\* the name prefix + str(index)
VariableName(prefix, index) == prefix \o ToString(index)

get_variable_name(self, prefix) ==
    LET fv == Sequent_free_variables(self) \cup Sequent_free_terms(self)
        index == CHOOSE k \in 1..(Cardinality(fv) + 1) :
                    /\ VariableName(prefix, k) \notin fv
                    /\ \A j \in 1..(k - 1) : VariableName(prefix, j) \in fv
    IN  VariableName(prefix, index)

\* the pairs (formula_left, formula_right), in the order of the two loops,
\* with what unify returned for each
AllPairs(self) ==
    [n \in 1..(Len(self.left) * Len(self.right)) |->
        LET i == ((n - 1) \div Len(self.right)) + 1
            j == ((n - 1) % Len(self.right)) + 1
        IN  [l |-> self.left[i].f, r |-> self.right[j].f,
             u |-> unify(self.left[i].f, self.right[j].f)]]

RECURSIVE SelectSeq2(_, _)
SelectSeq2(q, i) ==
    IF i > Len(q) THEN <<>>
    ELSE IF q[i].u.kind = "dict" THEN <<<<q[i].l, q[i].r>>>> \o SelectSeq2(q, i + 1)
    ELSE SelectSeq2(q, i + 1)

\* get_unification_pairs: the pairs for which unify did not return None
get_unification_pairs(self) == SelectSeq2(AllPairs(self), 1)

\* unify raised inside get_unification_pairs
PairsRaise(self) ==
    \E n \in 1..Len(AllPairs(self)) : AllPairs(self)[n].u.kind = "AttributeError"

Sequent_eq(self, other) ==
    /\ \A f \in Keys(self.left) : HasKey(other.left, f)
    /\ \A f \in Keys(other.left) : HasKey(self.left, f)
    /\ \A f \in Keys(self.right) : HasKey(other.right, f)
    /\ \A f \in Keys(other.right) : HasKey(self.right, f)

Sequent_str(self) ==
    LET left_part == JoinStr([i \in 1..Len(self.left) |-> self.left[i].f], ", ")
        right_part == JoinStr([i \in 1..Len(self.right) |-> self.right[i].f], ", ")
    IN  (IF left_part # "" THEN left_part \o " " ELSE left_part) \o "|-" \o
        (IF right_part # "" THEN " " \o right_part ELSE right_part)

Sequent_hash(self) == Sequent_str(self)

\* the member of the Python set S that `sequent in S` finds: equal hash, then __eq__
Matches(S, sequent) ==
    {m \in S : Sequent_hash(m) = Sequent_hash(sequent) /\ Sequent_eq(m, sequent)}

\* sequent in S
InSet(S, sequent) == Matches(S, sequent) # {}

\* S.add(sequent)
SetAdd(S, sequent) == IF InSet(S, sequent) THEN S ELSE S \cup {sequent}

\* S.remove(sequent), when sequent is in S
SetRemove(S, sequent) == S \ Matches(S, sequent)

\* S |= T adding one member of T only
SetUpdate_OneMember(S, T) ==
    IF T = {} THEN S ELSE SetAdd(S, CHOOSE m \in T : TRUE)

\* S |= T
SetUpdate(S, T) == S \cup {m \in T : ~InSet(S, m)}

-----------------------------------------------------------------------------
(* prove_sequent (prover.py).  One iteration of the main loop is three       *)
(* steps: dequeue (lines 145-150), the closure checks (152-193) and the      *)
(* rule expansion (195-455).  The inputs are well formed (the terms of a     *)
(* Predicate are Variables, Terms and Functors and every formula of a        *)
(* sequent is a Predicate, a connective or a quantification), so unify does  *)
(* not raise inside get_unification_pairs and a rule always matches.         *)

\* the search depth at which an external budget cancels the search
MaxDepth == 16

\* the largest sibling set the closure check is run on before the budget cancels
MaxSiblings == 5

\* the orders in which a for loop may visit the Python set S
Orders(S) ==
    {q \in [1..Cardinality(S) -> S] : \A i, j \in 1..Cardinality(S) : q[i] = q[j] => i = j}

LogEntry(act, depth, new, subst, closed) ==
    [act |-> act, depth |-> depth, new |-> new, subst |-> subst, closed |-> closed]

\* lines 146-147: the index of the sequent the inner while loop stops at
DequeueIndex ==
    IF \E i \in 1..Len(frontier) : ~InSet(proven, frontier[i])
    THEN CHOOSE i \in 1..Len(frontier) :
            /\ ~InSet(proven, frontier[i])
            /\ \A j \in 1..(i - 1) : InSet(proven, frontier[j])
    ELSE Len(frontier)

\* lines 145-149 with an empty frontier: old_sequent is None, break, return True
Exhausted ==
    /\ pc = "dequeue"
    /\ frontier = <<>>
    /\ result' = "provable"
    /\ pc' = "done"
    /\ UNCHANGED <<input, frontier, proven, sibs, time, born, old_sequent, log, args, out>>

\* lines 145-150: get the next sequent
Dequeue ==
    /\ pc = "dequeue"
    /\ frontier # <<>>
    /\ old_sequent' = frontier[DequeueIndex]
    /\ frontier' = SubSeq(frontier, DequeueIndex + 1, Len(frontier))
    /\ pc' = "closure"
    /\ UNCHANGED <<input, proven, sibs, time, born, result, log, args, out>>

\* line 158: old_sequent.siblings is not None (and the budget lasts)
HasSiblings ==
    /\ pc = "closure"
    /\ old_sequent.siblings # 0
    /\ Cardinality(sibs[old_sequent.siblings]) <= MaxSiblings

\* line 153: set(left.keys()) & set(right.keys()) is not empty
AxiomaticallyTrue(sequent) ==
    \E f \in Keys(sequent.left) : HasKey(sequent.right, f)

\* lines 153-155
CloseAxiom ==
    /\ pc = "closure"
    /\ AxiomaticallyTrue(old_sequent)
    /\ proven' = SetAdd(proven, old_sequent)
    /\ pc' = "dequeue"
    /\ log' = Append(log, LogEntry("CloseAxiom", old_sequent.depth, <<>>, <<>>, {}))
    /\ UNCHANGED <<input, frontier, sibs, time, born, old_sequent, result, args, out>>

\* line 158 when siblings is None: straight to the rule expansion
NoSiblings ==
    /\ pc = "closure"
    /\ ~AxiomaticallyTrue(old_sequent)
    /\ old_sequent.siblings = 0
    /\ pc' = "expand"
    /\ UNCHANGED <<input, frontier, proven, sibs, time, born, old_sequent, result, log, args, out>>

\* lines 160-161, the siblings visited in the order ord
sibling_pair_lists(ord) == [i \in 1..Len(ord) |-> get_unification_pairs(ord[i])]

\* line 164
AllHavePairs(lists) == \A i \in 1..Len(lists) : Len(lists[i]) > 0

\* an increment without carry: it gives up when the index at pos is at its end
Increment_NoCarry(index, lists, pos) ==
    IF pos >= 1 /\ index[pos] + 1 <= Len(lists[pos])
    THEN [index |-> [index EXCEPT ![pos] = @ + 1], pos |-> pos]
    ELSE [index |-> index, pos |-> 0]

RECURSIVE Increment(_, _, _)
\* lines 176-182 (indices from 1 here): the index after the increment, pos
\* being the position the inner while loop is at; <<>> stands for pos < 0
Increment(index, lists, pos) ==
    IF pos < 1 THEN [index |-> index, pos |-> pos]
    ELSE IF index[pos] + 1 <= Len(lists[pos])
         THEN [index |-> [index EXCEPT ![pos] = @ + 1], pos |-> pos]
         ELSE Increment([index EXCEPT ![pos] = 1], lists, pos - 1)

RECURSIVE Odometer(_, _)
\* lines 168-184: the first selection on which unify_list succeeds, or None
Odometer(lists, index) ==
    LET substitution == unify_list([i \in 1..Len(lists) |-> lists[i][index[i]]])
        next == Increment(index, lists, Len(lists))
    IN  IF substitution.kind # "None" THEN substitution
        ELSE IF next.pos < 1 THEN None
        ELSE Odometer(lists, next.index)

\* lines 166-184
FindSubstitution(lists) == Odometer(lists, [i \in 1..Len(lists) |-> 1])

\* lines 158-191: every sibling has a pair and one selection unifies
CloseUnify ==
    /\ HasSiblings
    /\ ~AxiomaticallyTrue(old_sequent)
    /\ \E ord \in Orders(sibs[old_sequent.siblings]) :
          LET lists == sibling_pair_lists(ord)
              substitution == FindSubstitution(lists)
          IN  /\ AllHavePairs(lists)
              /\ substitution.kind = "dict"
              /\ proven' = SetUpdate(proven, sibs[old_sequent.siblings])
              /\ frontier' = SelectSeq(frontier,
                                LAMBDA sequent : ~InSet(sibs[old_sequent.siblings], sequent))
              /\ log' = Append(log, LogEntry("CloseUnify", old_sequent.depth, <<>>,
                                             substitution.map, sibs[old_sequent.siblings]))
    /\ pc' = "dequeue"
    /\ UNCHANGED <<input, sibs, time, born, old_sequent, result, args, out>>

\* lines 164-185: every sibling has a pair and no selection unifies
NoUnifier ==
    /\ HasSiblings
    /\ ~AxiomaticallyTrue(old_sequent)
    /\ \E ord \in Orders(sibs[old_sequent.siblings]) :
          LET lists == sibling_pair_lists(ord)
          IN  /\ AllHavePairs(lists)
              /\ FindSubstitution(lists).kind = "None"
    /\ pc' = "expand"
    /\ UNCHANGED <<input, frontier, proven, sibs, time, born, old_sequent, result, log, args, out>>

\* lines 192-193: a sibling has no pair, old_sequent.siblings.remove(old_sequent);
\* remove raises KeyError when old_sequent is not in the set
RemoveFromSiblings ==
    /\ HasSiblings
    /\ ~AxiomaticallyTrue(old_sequent)
    /\ \E sequent \in sibs[old_sequent.siblings] : Len(get_unification_pairs(sequent)) = 0
    /\ IF InSet(sibs[old_sequent.siblings], old_sequent)
       THEN /\ sibs' = [sibs EXCEPT ![old_sequent.siblings] = SetRemove(@, old_sequent)]
            /\ pc' = "expand"
            /\ UNCHANGED result
       ELSE /\ result' = "KeyError"
            /\ pc' = "done"
            /\ UNCHANGED sibs
    /\ UNCHANGED <<input, frontier, proven, time, born, old_sequent, log, args, out>>

-----------------------------------------------------------------------------
(* Rule expansion: the choice of the formula (lines 196-223) *)

RECURSIVE Scan(_, _, _)
\* lines 197-203 / 204-210: the index of the chosen item of the dict d, 0 for
\* None; sel is the index chosen so far
Scan(d, i, sel) ==
    IF i > Len(d) THEN sel
    ELSE IF (sel = 0 \/ d[sel].d > d[i].d) /\ d[i].f.tag # "Predicate"
         THEN Scan(d, i + 1, i)
         ELSE Scan(d, i + 1, sel)

left_index == Scan(old_sequent.left, 1, 0)

right_index == Scan(old_sequent.right, 1, 0)

left_formula == old_sequent.left[left_index].f

left_depth == old_sequent.left[left_index].d

right_formula == old_sequent.right[right_index].f

right_depth == old_sequent.right[right_index].d

\* lines 211-221
apply_left ==
    \/ left_index # 0 /\ right_index = 0
    \/ left_index # 0 /\ right_index # 0 /\ left_depth < right_depth

apply_right ==
    \/ left_index = 0 /\ right_index # 0
    \/ left_index # 0 /\ right_index # 0 /\ ~(left_depth < right_depth)

\* lines 222-223: return False
Stuck ==
    /\ pc = "expand"
    /\ left_index = 0 /\ right_index = 0
    /\ result' = "not_provable"
    /\ pc' = "done"
    /\ log' = Append(log, LogEntry("Stuck", old_sequent.depth, <<>>, <<>>, {}))
    /\ UNCHANGED <<input, frontier, proven, sibs, time, born, old_sequent, args, out>>

\* the caller's budget runs out: the search is cancelled from outside
Budget ==
    /\ \/ /\ pc = "expand"
          /\ left_index # 0 \/ right_index # 0
          /\ old_sequent.depth >= MaxDepth
       \/ /\ pc = "closure"
          /\ ~AxiomaticallyTrue(old_sequent)
          /\ old_sequent.siblings # 0
          /\ Cardinality(sibs[old_sequent.siblings]) > MaxSiblings
    /\ result' = "budget"
    /\ pc' = "done"
    /\ UNCHANGED <<input, frontier, proven, sibs, time, born, old_sequent, log, args, out>>

LeftRule(tag) ==
    /\ pc = "expand"
    /\ old_sequent.depth < MaxDepth
    /\ apply_left
    /\ left_formula.tag = tag

RightRule(tag) ==
    /\ pc = "expand"
    /\ old_sequent.depth < MaxDepth
    /\ apply_right
    /\ right_formula.tag = tag

\* the successors of a rule of which only the first joins its sibling set
AddAll_FirstOnly(sets, new) ==
    IF Len(new) = 0 \/ new[1].siblings = 0 THEN sets
    ELSE [sets EXCEPT ![new[1].siblings] = SetAdd(@, new[1])]

RECURSIVE AddAll(_, _)
\* if new_sequent.siblings is not None: new_sequent.siblings.add(new_sequent),
\* for each successor in turn
AddAll(sets, new) ==
    IF Len(new) = 0 THEN sets
    ELSE AddAll(IF new[1].siblings = 0 THEN sets
                ELSE [sets EXCEPT ![new[1].siblings] = SetAdd(@, new[1])],
                Tail(new))

\* the successors put at the front of the frontier
Push_Front(act, sets, new) ==
    /\ sibs' = AddAll(sets, new)
    /\ frontier' = new \o frontier
    /\ pc' = "dequeue"
    /\ log' = Append(log, LogEntry(act, old_sequent.depth, new, <<>>, {}))
    /\ UNCHANGED <<input, proven, old_sequent, result, args, out>>

\* the end of every rule: the successors join their sibling set and the frontier
Push(act, sets, new) ==
    /\ sibs' = AddAll(sets, new)
    /\ frontier' = frontier \o new
    /\ pc' = "dequeue"
    /\ log' = Append(log, LogEntry(act, old_sequent.depth, new, <<>>, {}))
    /\ UNCHANGED <<input, proven, old_sequent, result, args, out>>

\* Sequent(old_sequent.left.copy(), old_sequent.right.copy(),
\*         old_sequent.siblings, old_sequent.depth + 1) with the two dicts changed
Successor(left, right) ==
    Sequent(left, right, old_sequent.siblings, old_sequent.depth + 1)

-----------------------------------------------------------------------------
(* The propositional rules *)

\* lines 227-240
NotLeft ==
    /\ LeftRule("Not")
    /\ Push("NotLeft", sibs,
            <<Successor(Del(old_sequent.left, left_formula),
                        Put(old_sequent.right, left_formula.kids[1], left_depth + 1))>>)
    /\ UNCHANGED <<time, born>>

\* lines 241-256
AndLeft ==
    /\ LeftRule("And")
    /\ Push("AndLeft", sibs,
            <<Successor(Put(Put(Del(old_sequent.left, left_formula),
                                left_formula.kids[1], left_depth + 1),
                            left_formula.kids[2], left_depth + 1),
                        old_sequent.right)>>)
    /\ UNCHANGED <<time, born>>

\* lines 257-282 without the second branch, new_sequent_b
OrLeft_OneBranch ==
    /\ LeftRule("Or")
    /\ Push("OrLeft", sibs,
            <<Successor(Put(Del(old_sequent.left, left_formula),
                            left_formula.kids[1], left_depth + 1),
                        old_sequent.right)>>)
    /\ UNCHANGED <<time, born>>

\* lines 257-282
OrLeft ==
    /\ LeftRule("Or")
    /\ Push("OrLeft", sibs,
            <<Successor(Put(Del(old_sequent.left, left_formula),
                            left_formula.kids[1], left_depth + 1),
                        old_sequent.right),
              Successor(Put(Del(old_sequent.left, left_formula),
                            left_formula.kids[2], left_depth + 1),
                        old_sequent.right)>>)
    /\ UNCHANGED <<time, born>>

\* lines 283-308
ImpliesLeft ==
    /\ LeftRule("Implies")
    /\ Push("ImpliesLeft", sibs,
            <<Successor(Del(old_sequent.left, left_formula),
                        Put(old_sequent.right, left_formula.kids[1], left_depth + 1)),
              Successor(Put(Del(old_sequent.left, left_formula),
                            left_formula.kids[2], left_depth + 1),
                        old_sequent.right)>>)
    /\ UNCHANGED <<time, born>>

\* lines 348-361
NotRight ==
    /\ RightRule("Not")
    /\ Push("NotRight", sibs,
            <<Successor(Put(old_sequent.left, right_formula.kids[1], right_depth + 1),
                        Del(old_sequent.right, right_formula))>>)
    /\ UNCHANGED <<time, born>>

\* lines 362-387
AndRight ==
    /\ RightRule("And")
    /\ Push("AndRight", sibs,
            <<Successor(old_sequent.left,
                        Put(Del(old_sequent.right, right_formula),
                            right_formula.kids[1], right_depth + 1)),
              Successor(old_sequent.left,
                        Put(Del(old_sequent.right, right_formula),
                            right_formula.kids[2], right_depth + 1))>>)
    /\ UNCHANGED <<time, born>>

\* lines 388-403
OrRight ==
    /\ RightRule("Or")
    /\ Push("OrRight", sibs,
            <<Successor(old_sequent.left,
                        Put(Put(Del(old_sequent.right, right_formula),
                                right_formula.kids[1], right_depth + 1),
                            right_formula.kids[2], right_depth + 1))>>)
    /\ UNCHANGED <<time, born>>

\* lines 404-419
ImpliesRight ==
    /\ RightRule("Implies")
    /\ Push("ImpliesRight", sibs,
            <<Successor(Put(old_sequent.left, right_formula.kids[1], right_depth + 1),
                        Put(Del(old_sequent.right, right_formula),
                            right_formula.kids[2], right_depth + 1))>>)
    /\ UNCHANGED <<time, born>>

-----------------------------------------------------------------------------
(* The quantifier rules *)

\* old_sequent.siblings or set(): None and the empty set are both falsy, and
\* then the successor gets a new set object
SiblingsOrNew ==
    IF old_sequent.siblings = 0 \/ sibs[old_sequent.siblings] = {}
    THEN Len(sibs) + 1
    ELSE old_sequent.siblings

SetsOrNew == IF SiblingsOrNew = Len(sibs) + 1 THEN Append(sibs, {}) ELSE sibs

\* the object a quantifier rule creates: Term(name) or Variable(name), at a new address
NewObject(tag, prefix) ==
    Node(tag, get_variable_name(old_sequent, prefix), <<>>, 0, Len(time) + 1)

\* quantified.formula.replace(quantified.variable, object), before set_creation_time
Instance(quantified, object) == replace(quantified.kids[2], quantified.kids[1], object)

\* formula.set_creation_time(old_sequent.depth + 1): the formula afterwards
Stamped(formula) == set_creation_time_tree(formula, old_sequent.depth + 1)

\* the heap after the new object was created and the instance was stamped; born
\* records the depth of the rule that created the object
StampHeap(formula) ==
    /\ time' = set_creation_time_heap(formula, old_sequent.depth + 1, Append(time, 0))
    /\ born' = Append(born, old_sequent.depth + 1)

\* the quantifier removed like the formula of any other rule, the instance
\* taking its counter plus one
KeepAndAdd_Removing(d, quantified, formula) ==
    LET d1 == Del(d, quantified)
    IN  IF HasKey(d1, formula) THEN d1
        ELSE Append(d1, Entry(formula, Get(d, quantified) + 1))

\* new_sequent.left[left_formula] += 1, then the instance is added with the same
\* counter if it is not in the dict
KeepAndAdd(d, quantified, formula) ==
    LET d1 == Put(d, quantified, Get(d, quantified) + 1)
    IN  IF HasKey(d1, formula) THEN d1 ELSE Append(d1, Entry(formula, Get(d1, quantified)))

\* lines 309-327
ForAllLeft ==
    /\ LeftRule("ForAll")
    /\ LET formula == Instance(left_formula, NewObject("Term", "t"))
       IN  /\ Push("ForAllLeft", SetsOrNew,
                   <<Sequent(KeepAndAdd(old_sequent.left, left_formula, Stamped(formula)),
                             old_sequent.right, SiblingsOrNew, old_sequent.depth + 1)>>)
           /\ StampHeap(formula)

\* lines 328-344
ThereExistsLeft ==
    /\ LeftRule("ThereExists")
    /\ LET formula == Instance(left_formula, NewObject("Variable", "v"))
       IN  /\ Push("ThereExistsLeft", sibs,
                   <<Successor(Put(Del(old_sequent.left, left_formula),
                                   Stamped(formula), left_depth + 1),
                               old_sequent.right)>>)
           /\ StampHeap(formula)

\* lines 420-436
ForAllRight ==
    /\ RightRule("ForAll")
    /\ LET formula == Instance(right_formula, NewObject("Variable", "v"))
       IN  /\ Push("ForAllRight", sibs,
                   <<Successor(old_sequent.left,
                               Put(Del(old_sequent.right, right_formula),
                                   Stamped(formula), right_depth + 1))>>)
           /\ StampHeap(formula)

\* lines 437-455
ThereExistsRight ==
    /\ RightRule("ThereExists")
    /\ LET formula == Instance(right_formula, NewObject("Term", "t"))
       IN  /\ Push("ThereExistsRight", SetsOrNew,
                   <<Sequent(old_sequent.left,
                             KeepAndAdd(old_sequent.right, right_formula, Stamped(formula)),
                             SiblingsOrNew, old_sequent.depth + 1)>>)
           /\ StampHeap(formula)

-----------------------------------------------------------------------------
(* prove_formula and the inputs *)

\* the Variable objects of the input formulas
x == Variable("x", 1)

y == Variable("y", 2)

\* 0-ary predicates and functors
Atom(name) == Predicate(name, <<>>)

Const(name) == Functor(name, <<>>)

Input(name, axioms, goal) == [name |-> name, axioms |-> axioms, goal |-> goal]

\* the end-to-end scenarios of the specification and inputs that reach the
\* other rules; axioms is the Python set handed to prove_formula
Scenarios == {
    Input("PropAxiom", {}, Implies(Atom("P"), Atom("P"))),
    Input("DeMorgan", {},
          Implies(Not(Or(Atom("A"), Atom("B"))), And(Not(Atom("A")), Not(Atom("B"))))),
    Input("UnivInst", {ForAll(x, Predicate("P", <<x>>))}, Predicate("P", <<Const("a")>>)),
    Input("ExistIntro", {Predicate("P", <<Const("a")>>)},
          ThereExists(x, Predicate("P", <<x>>))),
    Input("Syllogism",
          {ForAll(x, Implies(Predicate("Man", <<x>>), Predicate("Mortal", <<x>>))),
           Predicate("Man", <<Const("socrates")>>)},
          Predicate("Mortal", <<Const("socrates")>>)),
    Input("SwapValid", {},
          Implies(ThereExists(x, ForAll(y, Predicate("R", <<x, y>>))),
                  ForAll(y, ThereExists(x, Predicate("R", <<x, y>>))))),
    Input("SwapInvalid", {},
          Implies(ForAll(y, ThereExists(x, Predicate("R", <<x, y>>))),
                  ThereExists(x, ForAll(y, Predicate("R", <<x, y>>))))),
    Input("Drinker", {},
          ThereExists(x, ForAll(y, Implies(Predicate("P", <<x>>), Predicate("P", <<y>>))))),
    Input("Asym", {},
          ThereExists(x, ForAll(y, Implies(Predicate("Q", <<x, y>>),
                                           Predicate("Q", <<y, x>>))))),
    Input("WrongMortal",
          {ForAll(x, Implies(Predicate("Man", <<x>>), Predicate("Mortal", <<x>>))),
           Predicate("Man", <<Const("socrates")>>)},
          Predicate("Mortal", <<Const("plato")>>)),
    Input("OrComm", {}, Implies(Or(Atom("A"), Atom("B")), Or(Atom("B"), Atom("A")))),
    Input("AndComm", {}, Implies(And(Atom("A"), Atom("B")), And(Atom("B"), Atom("A")))),
    Input("NotValid", {}, Implies(Atom("A"), Atom("B"))),
    Input("Twice", {},
          And(Implies(Atom("A"), Atom("A")), Implies(Atom("A"), Atom("A")))),
    Input("Twins", {}, ThereExists(x, And(Atom("Q"), Atom("Q")))),
    Input("TwinsAmongSiblings", {ForAll(x, Predicate("P", <<x>>))},
          Not(Not(And(And(Atom("Q"), Atom("Q")), Atom("R"))))),
    Input("BoundV1", {},
          ForAll(x, ThereExists(Variable("v1", 2),
                                Predicate("R", <<x, Variable("v1", 2)>>)))),
    Input("Backtrack",
          {Predicate("P", <<Const("a")>>), Predicate("P", <<Const("b")>>),
           Predicate("Q", <<Const("b")>>)},
          ThereExists(x, And(Predicate("P", <<x>>), Predicate("Q", <<x>>)))),
    Input("Overwrite", {},
          Or(Implies(Atom("A"), Not(Atom("B"))), Not(Atom("B")))) }

\* prove_formula: the sequent {axiom: 0 for axiom in axioms} |- {formula: 0}, the
\* axioms in the order in which the set is iterated
InitialSequent(axioms, goal) ==
    Sequent([i \in 1..Len(axioms) |-> Entry(axioms[i], 0)], <<Entry(goal, 0)>>, 0, 0)

\* prove_sequent, lines 135-141, for the input (name, axioms, goal)
Start(name, axioms, goal) ==
    /\ input = Input(name, axioms, goal)
    /\ frontier = <<InitialSequent(axioms, goal)>>
    /\ proven = {InitialSequent(axioms, goal)}
    /\ sibs = <<>>
    /\ time = <<0, 0>>
    /\ born = <<0, 0>>
    /\ pc = "dequeue"
    /\ old_sequent = InitialSequent(axioms, goal)
    /\ result = "running"
    /\ log = <<>>
    /\ args = <<>>
    /\ out = None

Init ==
    \E scenario \in Scenarios : \E axioms \in Orders(scenario.axioms) :
        Start(scenario.name, axioms, scenario.goal)

Next ==
    \/ Exhausted
    \/ Dequeue
    \/ CloseAxiom
    \/ NoSiblings
    \/ CloseUnify
    \/ NoUnifier
    \/ RemoveFromSiblings
    \/ Stuck
    \/ Budget
    \/ NotLeft
    \/ AndLeft
    \/ OrLeft
    \/ ImpliesLeft
    \/ ForAllLeft
    \/ ThereExistsLeft
    \/ NotRight
    \/ AndRight
    \/ OrRight
    \/ ImpliesRight
    \/ ForAllRight
    \/ ThereExistsRight

Spec == Init /\ [][Next]_vars

-----------------------------------------------------------------------------
(* The eigenvariable condition and the end-to-end scenarios *)

RECURSIVE ApplyUntilFixed(_, _, _)
\* the bindings of substitution applied by replace until nothing changes (at
\* most fuel rounds)
ApplyUntilFixed(e, substitution, fuel) ==
    LET e2 == ReplaceAll(e, substitution)
    IN  IF fuel = 0 \/ e2 = e THEN e ELSE ApplyUntilFixed(e2, substitution, fuel - 1)

RECURSIVE VariableObjects(_)
\* the addresses of the Variable objects of an expression
VariableObjects(e) ==
    IF e.tag = "Variable" THEN {e.obj}
    ELSE IF e.tag = "Term" THEN {}
    ELSE UNION {VariableObjects(e.kids[i]) : i \in 1..Len(e.kids)}

\* the closures by substitution of the run so far
Closures == {n \in 1..Len(log) : log[n].act = "CloseUnify"}

\* the binding k = v of a closure by substitution, as it is printed
Binds(n, k, v) ==
    \E i \in 1..Len(log[n].subst) :
        Str(log[n].subst[i].k) = k /\ Str(log[n].subst[i].v) = v

\* C1: whenever a sibling group is closed by a substitution, no unification
\* term is bound, directly or through the chain of bindings, to an expression
\* that contains a variable introduced at a greater search depth than the
\* term itself.
C1_EigenvariableCondition ==
    \A n \in Closures : \A i \in 1..Len(log[n].subst) :
        LET tau == log[n].subst[i].k
            e == ApplyUntilFixed(log[n].subst[i].v, log[n].subst, Len(log[n].subst))
        IN  \A o \in VariableObjects(e) : born[o] <= born[tau.obj]

\* C2: the search for the valid quantifier swap ends with the result provable
\* (it is not still open when the caller's budget ends it).
C2_SwapValidProvable ==
    input.name = "SwapValid" /\ pc = "done" => result = "provable"

\* C3: the search for the invalid quantifier swap never closes a sibling
\* group and never returns provable.
C3_SwapInvalidNeverCloses ==
    input.name = "SwapInvalid" => result # "provable" /\ Closures = {}

\* C3, its case: the invalid swap was expanded until both sides hold an
\* instance R(., .) and the closure check found no unifier
C3_Witness ==
    /\ input.name = "SwapInvalid"
    /\ pc = "expand"
    /\ old_sequent.siblings # 0
    /\ \E i \in 1..Len(old_sequent.left) : old_sequent.left[i].f.tag = "Predicate"
    /\ \E i \in 1..Len(old_sequent.right) : old_sequent.right[i].f.tag = "Predicate"

\* the successors of the only ImpliesLeft expansion of the run
ImpliesLeftBranches ==
    UNION {{log[n].new[1], log[n].new[2]} : n \in {m \in 1..Len(log) : log[m].act = "ImpliesLeft"}}

\* the syllogism is proved, the last iteration being one closure that closes
\* the two branches of the ImpliesLeft expansion with t1 = socrates
SyllogismClosed ==
    /\ result = "provable"
    /\ Cardinality({m \in 1..Len(log) : log[m].act = "ImpliesLeft"}) = 1
    /\ Closures = {Len(log)}
    /\ log[Len(log)].closed = ImpliesLeftBranches
    /\ Cardinality(ImpliesLeftBranches) = 2
    /\ log[Len(log)].subst = <<log[Len(log)].subst[1]>>
    /\ Binds(Len(log), "t1", "socrates")
    /\ \A sequent \in ImpliesLeftBranches : "t1" \in Sequent_free_terms(sequent)

\* C4: the syllogism returns provable, and the two branches made by the
\* implies-left rule are closed together, in one iteration, by the single
\* substitution t1 = socrates.
C4_Syllogism ==
    input.name = "Syllogism" =>
        /\ result \in {"running", "provable"}
        /\ Len(log) <= 4
        /\ pc = "done" => SyllogismClosed

C4_Witness == input.name = "Syllogism" /\ SyllogismClosed

\* universal instantiation is proved by one ForAllLeft expansion followed at
\* once by the closure t1 = a
UnivInstClosed ==
    /\ result = "provable"
    /\ Len(log) = 2
    /\ log[1].act = "ForAllLeft"
    /\ log[2].act = "CloseUnify"
    /\ log[2].depth = 1
    /\ log[2].subst = <<log[2].subst[1]>>
    /\ Binds(2, "t1", "a")

\* C5: universal instantiation returns provable after exactly one forall-left
\* expansion, closed by t1 = a on the first sequent dequeued after it.
C5_UnivInst ==
    input.name = "UnivInst" =>
        /\ result \in {"running", "provable"}
        /\ Len(log) <= 2
        /\ pc = "done" => UnivInstClosed

C5_Witness == input.name = "UnivInst" /\ UnivInstClosed

-----------------------------------------------------------------------------
(* The main loop: closure, selection, dequeue and the sibling sets *)

\* the last iteration of the main loop closed a sibling group by substitution
JustClosed == Len(log) > 0 /\ log[Len(log)].act = "CloseUnify"

\* C13: when a sibling group is closed by a substitution, every member of the
\* sibling set is in proven from then on, and no member of it is in the
\* frontier when the next sequent is dequeued.
C13_SiblingClosureAtomic ==
    /\ \A n \in Closures : \A sequent \in log[n].closed : InSet(proven, sequent)
    /\ JustClosed =>
          \A i \in 1..Len(frontier) : ~InSet(log[Len(log)].closed, frontier[i])

\* C13, its case: a group of two siblings was closed while one of them was
\* still waiting in the frontier
C13_Witness ==
    /\ JustClosed
    /\ pc = "dequeue"
    /\ Cardinality(log[Len(log)].closed) = 2
    /\ \E n \in 1..(Len(log) - 1) :
          /\ Len(log[n].new) = 2
          /\ \A m \in (n + 1)..(Len(log) - 1) : log[m].act = "CloseAxiom"
          /\ InSet(log[Len(log)].closed, log[n].new[2])

LeftRuleNames == {"NotLeft", "AndLeft", "OrLeft", "ImpliesLeft", "ForAllLeft", "ThereExistsLeft"}

RightRuleNames ==
    {"NotRight", "AndRight", "OrRight", "ImpliesRight", "ForAllRight", "ThereExistsRight"}

\* the last iteration expanded a formula of old_sequent by a rule of the given side
Expanded(names) == pc = "dequeue" /\ Len(log) > 0 /\ log[Len(log)].act \in names

\* the counters of the formulas of old_sequent that are not Predicates
OpenCounters ==
    {old_sequent.left[i].d : i \in {j \in 1..Len(old_sequent.left) :
                                        old_sequent.left[j].f.tag # "Predicate"}} \cup
    {old_sequent.right[i].d : i \in {j \in 1..Len(old_sequent.right) :
                                        old_sequent.right[j].f.tag # "Predicate"}}

\* C15: the formula a rule expands is not a Predicate and has the smallest
\* expansion counter of the formulas of both sides that are not Predicates;
\* when the smallest counter of the left equals that of the right the left
\* formula is the one expanded; and the search returns not provable only on a
\* sequent all of whose formulas are Predicates.
C15_SelectionLeftFirst ==
    /\ Expanded(LeftRuleNames) =>
          /\ left_formula.tag # "Predicate"
          /\ \A d \in OpenCounters : left_depth <= d
    /\ Expanded(RightRuleNames) =>
          /\ right_formula.tag # "Predicate"
          /\ \A d \in OpenCounters : right_depth <= d
          /\ ~(left_index # 0 /\ left_depth = right_depth)
    /\ result = "not_provable" => OpenCounters = {}

\* C16: the sequent that an iteration of the main loop checks for closure or
\* expands was not a member of proven when it was dequeued (proven is not
\* changed between the dequeue and these steps); in particular the search
\* does not process a sequent of a frontier all of whose sequents are in
\* proven.
C16_DequeuedNotProven ==
    pc \in {"closure", "expand"} => ~InSet(proven, old_sequent)

\* an iteration of the main loop has ended and the next has not dequeued yet:
\* old_sequent is the sequent the ended iteration had dequeued
IterationEnded == pc = "dequeue" /\ Len(log) > 0

\* C17: at the end of an iteration the sequent it dequeued is a member of
\* proven, or its successors were pushed on the frontier, or it made the
\* search return not provable; the search ends in no other way than by
\* returning (or by the caller's budget).
C17_NoSequentLost ==
    /\ IterationEnded =>
          \/ InSet(proven, old_sequent)
          \/ /\ log[Len(log)].new # <<>>
             /\ \A i \in 1..Len(log[Len(log)].new) :
                   \E j \in 1..Len(frontier) : frontier[j] = log[Len(log)].new[i]
    /\ pc = "done" => result \in {"provable", "not_provable", "budget"}

\* the Variable and Term objects of the formulas of a sequent
SequentObjects(sequent) ==
    UNION {AlphabetObjects(f) : f \in Keys(sequent.left) \cup Keys(sequent.right)}

\* the Variable and Term objects that a rule has created and substituted into
\* a formula of a sequent of the search
IntroducedObjects ==
    {o \in SequentObjects(old_sequent) \cup
            UNION {SequentObjects(frontier[i]) : i \in 1..Len(frontier)} : born[o] > 0}

\* C18: the creation time of every Variable or Term object that a rule has
\* introduced is, in every state, the search depth of the rule application
\* that introduced it.
C18_CreationTimeFixed ==
    \A o \in IntroducedObjects : time[o] = born[o]

RECURSIVE CapturedIn(_, _, _)
\* replacing the free occurrences of variable in body by object puts object in
\* the scope of a quantifier of body that binds it
CapturedIn(body, variable, object) ==
    \/ /\ IsQuantification(body)
       /\ Eq(body.kids[1], object)
       /\ variable.name \in free_variables(body)
    \/ \E i \in 1..Len(body.kids) : CapturedIn(body.kids[i], variable, object)

\* the quantification the last iteration instantiated, and the object it
\* substituted for the bound variable
LastQuantified ==
    IF log[Len(log)].act \in LeftRuleNames THEN left_formula ELSE right_formula

LastFresh ==
    IF log[Len(log)].act \in {"ForAllLeft", "ThereExistsRight"}
    THEN NewObject("Term", "t")
    ELSE NewObject("Variable", "v")

\* C19: no quantifier rule substitutes a fresh Variable or Term that a
\* quantifier inside the instantiated body binds.
C19_FreshNotCaptured ==
    Expanded({"ForAllLeft", "ThereExistsLeft", "ForAllRight", "ThereExistsRight"}) =>
        ~CapturedIn(LastQuantified.kids[2], LastQuantified.kids[1], LastFresh)

\* C20: every sequent of the frontier that has a sibling set is a member of
\* it, under the equality of sequents.
C20_FrontierInSiblings ==
    \A i \in 1..Len(frontier) :
        frontier[i].siblings # 0 => InSet(sibs[frontier[i].siblings], frontier[i])

\* the successors the last iteration pushed, if it applied a rule
LastSuccessors == IF Len(log) > 0 THEN log[Len(log)].new ELSE <<>>

\* C21: after a rule applied to a parent that has a sibling set, every
\* successor refers to that same set, is a member of it and has the parent's
\* depth plus one; a forall-left or exists-right applied to a parent without
\* a sibling set gives its successor a new set that holds the successor alone.
C21_SuccessorsInheritSiblings ==
    Expanded(LeftRuleNames \cup RightRuleNames) =>
        \A i \in 1..Len(LastSuccessors) :
            /\ LastSuccessors[i].depth = old_sequent.depth + 1
            /\ old_sequent.siblings # 0 =>
                  /\ LastSuccessors[i].siblings = old_sequent.siblings
                  /\ InSet(sibs[old_sequent.siblings], LastSuccessors[i])
            /\ old_sequent.siblings = 0 /\ LastSuccessors[i].siblings # 0 =>
                  /\ log[Len(log)].act \in {"ForAllLeft", "ThereExistsRight"}
                  /\ sibs[LastSuccessors[i].siblings] = {LastSuccessors[i]}

\* the longest of the lists
Longest(lists) ==
    IF lists = <<>> THEN 0
    ELSE CHOOSE m \in {Len(lists[i]) : i \in 1..Len(lists)} :
            \A i \in 1..Len(lists) : Len(lists[i]) <= m

\* the cartesian product: the selections of one pair per sibling, each given
\* by the index of the pair in the sibling's list
Selections(lists) ==
    {index \in [1..Len(lists) -> 1..Longest(lists)] :
        \A i \in 1..Len(lists) : index[i] <= Len(lists[i])}

SelectedPairs(lists, index) == [i \in 1..Len(lists) |-> lists[i][index[i]]]

Unifies(lists, index) == unify_list(SelectedPairs(lists, index)).kind = "dict"

\* lexicographic order, the first sibling's index being the most significant
\* (the last sibling's index varies fastest)
Before(a, b) ==
    \E k \in 1..Len(a) : a[k] < b[k] /\ \A j \in 1..(k - 1) : a[j] = b[j]

\* the selections that unify and have no unifying selection before them
FirstUnifying(lists) ==
    {index \in Selections(lists) :
        /\ Unifies(lists, index)
        /\ \A other \in Selections(lists) : Before(other, index) => ~Unifies(lists, other)}

\* the closure step found a pair for every sibling and fell through to the rules
FellThrough ==
    /\ pc = "expand"
    /\ old_sequent.siblings # 0
    /\ InSet(sibs[old_sequent.siblings], old_sequent)
    /\ \A sequent \in sibs[old_sequent.siblings] : Len(get_unification_pairs(sequent)) > 0

\* C22: a group is closed with the substitution of the first selection, in
\* lexicographic order over the whole cartesian product of the siblings' pair
\* lists, on which unify_list succeeds; and the closure step falls through to
\* rule expansion with a pair for every sibling only if unify_list fails on
\* every selection.
C22_OdometerFirstUnifier ==
    /\ JustClosed =>
          \E ord \in Orders(log[Len(log)].closed) :
              LET lists == sibling_pair_lists(ord)
              IN  /\ AllHavePairs(lists)
                  /\ \E index \in FirstUnifying(lists) :
                        log[Len(log)].subst = unify_list(SelectedPairs(lists, index)).map
    /\ FellThrough =>
          \A ord \in Orders(sibs[old_sequent.siblings]) :
              \A index \in Selections(sibling_pair_lists(ord)) :
                  ~Unifies(sibling_pair_lists(ord), index)

\* a group of two or more is closed although, whatever the order of the
\* siblings, the first selection does not unify
C22_Witness ==
    /\ JustClosed
    /\ Cardinality(log[Len(log)].closed) >= 2
    /\ \A ord \in Orders(log[Len(log)].closed) :
          /\ AllHavePairs(sibling_pair_lists(ord))
          /\ ~Unifies(sibling_pair_lists(ord), [i \in 1..Len(ord) |-> 1])

\* the formula the last rule expanded, its side and its counter in old_sequent
LastExpanded == LastQuantified

ExpandedSide == IF log[Len(log)].act \in LeftRuleNames THEN "left" ELSE "right"

ExpandedCounter == IF ExpandedSide = "left" THEN left_depth ELSE right_depth

SideOf(sequent, side) == IF side = "left" THEN sequent.left ELSE sequent.right

OnSide(side, f) == [side |-> side, f |-> f]

\* the subformulas the last rule puts into its i-th successor, with their side
Introduced(i) ==
    LET act == log[Len(log)].act
        formula1 == LastExpanded.kids[1]
        formula2 == LastExpanded.kids[2]
    IN  CASE act = "NotLeft" -> {OnSide("right", formula1)}
          [] act = "AndLeft" -> {OnSide("left", formula1), OnSide("left", formula2)}
          [] act = "OrLeft" -> {OnSide("left", LastExpanded.kids[i])}
          [] act = "ImpliesLeft" ->
                IF i = 1 THEN {OnSide("right", formula1)} ELSE {OnSide("left", formula2)}
          [] act = "NotRight" -> {OnSide("left", formula1)}
          [] act = "AndRight" -> {OnSide("right", LastExpanded.kids[i])}
          [] act = "OrRight" -> {OnSide("right", formula1), OnSide("right", formula2)}
          [] act = "ImpliesRight" -> {OnSide("left", formula1), OnSide("right", formula2)}
          [] act \in {"ForAllLeft", "ThereExistsLeft", "ForAllRight", "ThereExistsRight"} ->
                {OnSide(ExpandedSide, Instance(LastExpanded, LastFresh))}

\* C23: in every successor of a rule every formula of the parent other than
\* the expanded one is present with the counter it had in the parent, and every
\* subformula the rule introduces is present with the expanded formula's
\* counter in the parent plus one, whether or not an equal formula was already
\* on that side.
C23_CountersPreserved ==
    Expanded(LeftRuleNames \cup RightRuleNames) =>
        \A i \in 1..Len(LastSuccessors) :
            /\ \A side \in {"left", "right"} :
                  \A j \in 1..Len(SideOf(old_sequent, side)) :
                      LET item == SideOf(old_sequent, side)[j]
                      IN  ~(side = ExpandedSide /\ SameKey(item.f, LastExpanded)) =>
                              /\ HasKey(SideOf(LastSuccessors[i], side), item.f)
                              /\ Get(SideOf(LastSuccessors[i], side), item.f) = item.d
            /\ \A n \in Introduced(i) :
                  /\ HasKey(SideOf(LastSuccessors[i], n.side), n.f)
                  /\ Get(SideOf(LastSuccessors[i], n.side), n.f) = ExpandedCounter + 1

\* the sequent holds a quantifier that forall-left or exists-right expands and keeps
HoldsKeptQuantifier(sequent) ==
    \/ \E i \in 1..Len(sequent.left) : sequent.left[i].f.tag = "ForAll"
    \/ \E i \in 1..Len(sequent.right) : sequent.right[i].f.tag = "ThereExists"

\* the formulas of old_sequent that are not Predicates, with their side
OpenFormulas ==
    {OnSide("left", old_sequent.left[i].f) :
        i \in {j \in 1..Len(old_sequent.left) : old_sequent.left[j].f.tag # "Predicate"}} \cup
    {OnSide("right", old_sequent.right[i].f) :
        i \in {j \in 1..Len(old_sequent.right) : old_sequent.right[j].f.tag # "Predicate"}}

TermNames(sequent) == Sequent_free_terms(sequent)

\* the last rule was a forall-left or exists-right whose unification term
\* occurs in its successor
Instantiated ==
    /\ Expanded({"ForAllLeft", "ThereExistsRight"})
    /\ LastFresh.name \in TermNames(LastSuccessors[1])

\* the other sequents of the successor's sibling group: the members of the set
\* and the sequents of the frontier that refer to it
GroupOfSuccessor ==
    (sibs[LastSuccessors[1].siblings] \cup
     {frontier[i] : i \in {j \in 1..Len(frontier) :
                              frontier[j].siblings = LastSuccessors[1].siblings}})
    \ {LastSuccessors[1]}

\* C25: the name of the unification term that a forall-left or exists-right
\* introduces, which is new for the expanded sequent, is not the name of a
\* unification term of another sequent of the same sibling group: no two
\* instantiations of a group share a name.
C25_TermNamesUniqueInGroup ==
    Instantiated =>
        \A sequent \in GroupOfSuccessor : LastFresh.name \notin TermNames(sequent)

\* C26: the frontier is ordered by depth from front to back and its depths
\* differ by at most one; the sequent being processed is no deeper than any
\* sequent still pending; and the sequents are closed or expanded in
\* non-decreasing order of depth.
C26_BreadthFirst ==
    /\ \A i, j \in 1..Len(frontier) :
          /\ i < j => frontier[i].depth <= frontier[j].depth
          /\ frontier[j].depth - frontier[i].depth <= 1
    /\ pc \in {"closure", "expand"} =>
          \A i \in 1..Len(frontier) :
              /\ old_sequent.depth <= frontier[i].depth
              /\ frontier[i].depth <= old_sequent.depth + 1
    /\ \A m, n \in 1..Len(log) : m < n => log[m].depth <= log[n].depth

\* while a sequent is processed, a sequent of its depth and a successor one
\* deeper are both pending
C26_Witness ==
    /\ pc \in {"closure", "expand"}
    /\ \E i, j \in 1..Len(frontier) :
          /\ i < j
          /\ frontier[i].depth = old_sequent.depth
          /\ frontier[j].depth = old_sequent.depth + 1

-----------------------------------------------------------------------------
(* Propositional inputs: prove_formula on quantifier-free formulas of 0-ary  *)
(* predicates.  No rule makes a Term, so siblings stays None and only the    *)
(* propositional part of the loop runs.                                      *)

\* the largest number of connectives of an input a1, ..., ak |- goal, read as
\* the formula a1 -> (... -> (ak -> goal)): those of the axioms and of the
\* goal, and one for each axiom
MaxConnectives == 2

\* the largest number of axioms of an input
MaxAxioms == 1

PropAtoms == {Atom("A"), Atom("B")}

RECURSIVE PropFormulas(_)
\* the quantifier-free formulas over PropAtoms with exactly n connectives
PropFormulas(n) ==
    IF n = 0 THEN PropAtoms
    ELSE {Not(f) : f \in PropFormulas(n - 1)} \cup
         UNION {UNION {{And(a, b), Or(a, b), Implies(a, b)} :
                        a \in PropFormulas(i), b \in PropFormulas(n - 1 - i)} :
                i \in 0..(n - 1)}

RECURSIVE AxiomLists(_, _)
\* the lists of k distinct axioms with n connectives in all: the order in which
\* the set axioms is iterated
AxiomLists(k, n) ==
    IF k = 0 THEN (IF n = 0 THEN {<<>>} ELSE {})
    ELSE UNION {UNION {{Append(q, f) :
                          q \in {r \in AxiomLists(k - 1, n - m) :
                                    \A i \in 1..Len(r) : ~SameKey(r[i], f)}} :
                       f \in PropFormulas(m)} :
                m \in 0..n}

PropInputs ==
    UNION {UNION {UNION {{Input("Prop", axioms, goal) :
                            axioms \in AxiomLists(k, n), goal \in PropFormulas(m)} :
                         n \in 0..(MaxConnectives - k - m)} :
                  m \in 0..(MaxConnectives - k)} :
           k \in 0..MaxAxioms}

\* the propositional scenarios of the specification
PropScenarios ==
    {Input(s.name, <<>>, s.goal) :
        s \in {t \in Scenarios :
                t.name \in {"PropAxiom", "DeMorgan", "OrComm", "AndComm", "NotValid"}}}

InitProp ==
    \E i \in PropInputs \cup PropScenarios : Start(i.name, i.axioms, i.goal)

NextProp ==
    \/ Exhausted
    \/ Dequeue
    \/ CloseAxiom
    \/ NoSiblings
    \/ Stuck
    \/ NotLeft
    \/ AndLeft
    \/ OrLeft
    \/ ImpliesLeft
    \/ NotRight
    \/ AndRight
    \/ OrRight
    \/ ImpliesRight

SpecProp == InitProp /\ [][NextProp]_vars

RECURSIVE AtomNames(_)
\* the names of the 0-ary predicates of a quantifier-free formula
AtomNames(f) ==
    IF f.tag = "Predicate" THEN {f.name}
    ELSE UNION {AtomNames(f.kids[i]) : i \in 1..Len(f.kids)}

RECURSIVE Holds(_, _)
\* the truth value of a quantifier-free formula under the valuation v
Holds(f, v) ==
    CASE f.tag = "Predicate" -> v[f.name]
      [] f.tag = "Not" -> ~Holds(f.kids[1], v)
      [] f.tag = "And" -> Holds(f.kids[1], v) /\ Holds(f.kids[2], v)
      [] f.tag = "Or" -> Holds(f.kids[1], v) \/ Holds(f.kids[2], v)
      [] f.tag = "Implies" -> Holds(f.kids[1], v) => Holds(f.kids[2], v)

\* axioms |- goal is truth-table valid
TruthTableValid(axioms, goal) ==
    LET names == AtomNames(goal) \cup UNION {AtomNames(axioms[i]) : i \in 1..Len(axioms)}
    IN  \A v \in [names -> BOOLEAN] :
            (\A i \in 1..Len(axioms) : Holds(axioms[i], v)) => Holds(goal, v)

RECURSIVE Connectives(_)
\* the number of connectives of a quantifier-free formula
Connectives(f) ==
    IF f.tag = "Predicate" THEN 0
    ELSE Connectives(f.kids[1]) + (IF Len(f.kids) = 2 THEN Connectives(f.kids[2]) ELSE 0) + 1

\* the number of connectives of a sequent
SequentConnectives(sequent) ==
    LET RECURSIVE Sum(_, _)
        Sum(d, i) == IF i > Len(d) THEN 0 ELSE Connectives(d[i].f) + Sum(d, i + 1)
    IN  Sum(sequent.left, 1) + Sum(sequent.right, 1)

\* C6: on a quantifier-free input of 0-ary predicates the search terminates
\* (every rule removes a connective, so a sequent at depth d has at most
\* total - d connectives and the loop runs at most 2^(total+1) - 1 times; the
\* search neither raises nor outlasts the budget), and it returns provable exactly when axioms |- goal is truth-table
\* valid and not provable otherwise; P -> P and De Morgan return provable.
C6_Propositional ==
    LET total == SequentConnectives(InitialSequent(input.axioms, input.goal))
    IN  /\ result \in {"running", "provable", "not_provable"}
        /\ \A i \in 1..Len(frontier) :
              frontier[i].depth + SequentConnectives(frontier[i]) <= total
        /\ pc # "dequeue" => old_sequent.depth + SequentConnectives(old_sequent) <= total
        /\ Len(log) <= 2 ^ (total + 1) - 1
        /\ pc = "done" =>
              /\ result = "provable" <=> TruthTableValid(input.axioms, input.goal)
              /\ result = "not_provable" <=> ~TruthTableValid(input.axioms, input.goal)
        /\ pc = "done" /\ input.name \in {"PropAxiom", "DeMorgan"} => result = "provable"

\* C6, its case: De Morgan was expanded to the end and returned provable
C6_Witness ==
    /\ input.name = "DeMorgan"
    /\ pc = "done"
    /\ result = "provable"
    /\ \E n \in 1..Len(log) : log[n].act = "AndRight"

-----------------------------------------------------------------------------
(* unify as a function: the arguments are drawn from bounded sets, with every *)
(* assignment of creation times to the Variable, Term and Functor objects     *)
(* (set_creation_time can be called on any object, so each is reachable).     *)

\* the largest creation time of an object handed to unify
MaxTime == 1

\* the Term and Variable objects of the arguments, at the addresses 1 to 4
Leaves == {Term("t1", 1), Term("t2", 2), Variable("v1", 3), Variable("v2", 4)}

\* Functor objects over the leaves, each with a creation time of its own
TimedFunctors ==
    {FunctorAt("c", <<>>, t) : t \in 0..MaxTime} \cup
    {FunctorAt("f", <<l>>, t) : l \in Leaves, t \in 0..MaxTime} \cup
    {FunctorAt("h", <<l1, l2>>, t) : l1, l2 \in Leaves, t \in 0..MaxTime}

\* expressions of the classes that have no attribute time
Timeless ==
    {Predicate("P", <<l>>) : l \in Leaves} \cup {Not(Predicate("P", <<l>>)) : l \in Leaves} \cup
    {And(Predicate("P", <<l>>), Atom("A")) : l \in Leaves} \cup
    {Or(Predicate("P", <<l>>), Atom("A")) : l \in Leaves} \cup
    {Implies(Predicate("P", <<l>>), Atom("A")) : l \in Leaves} \cup
    {ForAll(Variable("v1", 3), Predicate("P", <<l>>)) : l \in Leaves} \cup
    {ThereExists(Variable("v1", 3), Predicate("P", <<l>>)) : l \in Leaves}

\* a Term or Variable opposite any expression, in both orders
LeafCases ==
    UNION {{<<l, e>>, <<e, l>>} : l \in Leaves, e \in Leaves \cup TimedFunctors \cup Timeless}

\* the arguments of the binary Functor h of the structural cases
HArgs == Leaves \cup {Functor("f", <<Term("t1", 1)>>), Functor("f", <<Term("t2", 2)>>)}

\* two Functors or two Predicates of the same name and arity
StructuralCases ==
    {<<Functor("h", <<x1, x2>>), Functor("h", <<x3, x4>>)>> : x1, x2, x3, x4 \in HArgs} \cup
    {<<Predicate("Q", <<l1, l2>>), Predicate("Q", <<l3, l4>>)>> : l1, l2, l3, l4 \in Leaves} \cup
    {<<Functor("f", <<l1>>), Functor("f", <<l2>>)>> : l1, l2 \in Leaves}

\* different names, different arities, different classes
MismatchCases ==
    {<<Functor("c", <<>>), Functor("c", <<>>)>>,
     <<Functor("c", <<>>), Functor("d", <<>>)>>,
     <<Functor("f", <<Term("t1", 1)>>), Functor("f", <<Term("t1", 1), Term("t2", 2)>>)>>,
     <<Functor("f", <<Term("t1", 1)>>), Predicate("f", <<Term("t1", 1)>>)>>,
     <<Predicate("P", <<Term("t1", 1)>>), Predicate("Q", <<Term("t1", 1), Term("t2", 2)>>)>>,
     <<Not(Predicate("P", <<Term("t1", 1)>>)), Not(Predicate("P", <<Variable("v1", 3)>>))>>}

UnifyCases == LeafCases \cup StructuralCases \cup MismatchCases

\* the state before a call of a function of the library: no search is running
Idle(name) ==
    /\ input = Input(name, <<>>, Atom("P"))
    /\ frontier = <<>>
    /\ proven = {}
    /\ sibs = <<>>
    /\ pc = "call"
    /\ old_sequent = InitialSequent(<<>>, Atom("P"))
    /\ result = "running"
    /\ log = <<>>
    /\ out = None

InitUnify ==
    /\ Idle("unify")
    /\ \E case \in UnifyCases :
          /\ args = case
          /\ \E heap \in [1..4 -> 0..MaxTime] :
                /\ \A o \in 1..4 :
                      o \notin AlphabetObjects(case[1]) \cup AlphabetObjects(case[2])
                          => heap[o] = 0
                /\ time = heap
                /\ born = heap

\* sub = unify(a, b)
CallUnify ==
    /\ pc = "call"
    /\ input.name = "unify"
    /\ out' = unify(args[1], args[2])
    /\ pc' = "returned"
    /\ UNCHANGED <<input, frontier, proven, sibs, time, born, old_sequent, result, log, args>>

NextUnify == CallUnify

SpecUnify == InitUnify /\ [][NextUnify]_vars

\* unify has returned (or raised) on the arguments args
Returned == input.name = "unify" /\ pc = "returned"

\* C7: if unify(a, b) returns a substitution, then applying its bindings by
\* replace until nothing changes turns a and b into structurally equal
\* expressions.
C7_UnifySound ==
    Returned /\ out.kind = "dict" =>
        Eq(ApplyUntilFixed(args[1], out.map, Len(out.map) + 1),
           ApplyUntilFixed(args[2], out.map, Len(out.map) + 1))

\* C7, its case: unify returned two bindings, the second found after the first
\* was applied to the remaining children
C7_Witness ==
    /\ Returned
    /\ out.kind = "dict"
    /\ Len(out.map) = 2
    /\ ~Eq(args[1], args[2])
    /\ \E i \in 1..2 : out.map[i].v.tag = "Functor"

RECURSIVE SubexpressionTimes(_)
\* the creation times of the subexpressions of e that carry one
SubexpressionTimes(e) ==
    (IF HasTime(e) THEN {TimeOf(e)} ELSE {}) \cup
    UNION {SubexpressionTimes(e.kids[i]) : i \in 1..Len(e.kids)}

\* C8: unify(Term tau, e) fails whenever some subexpression of e, at any
\* nesting level, has a creation time greater than tau's.
C8_EigenvariableOrdering ==
    /\ Returned
    /\ args[1].tag = "Term"
    /\ \E t \in SubexpressionTimes(args[2]) : t > TimeOf(args[1])
    => out = None

\* what the specification gives for unify on a Term tau and an expression e
TermCase(tau, e) ==
    IF occurs(e, tau) \/ (HasTime(e) /\ TimeOf(e) > TimeOf(tau)) THEN None
    ELSE Dict(<<Item(tau, e)>>)

\* C9: with a Term tau for one argument and an expression e for the other
\* (tau the first argument when both are Terms), unify returns exactly the
\* one binding tau = e if tau does not occur in e and e's creation time is not
\* greater than tau's, and the failure sentinel otherwise, in both orders of
\* the arguments.
C9_TermCase ==
    /\ Returned => (args[1].tag = "Term" => out = TermCase(args[1], args[2]))
    /\ Returned =>
          (args[1].tag # "Term" /\ args[2].tag = "Term" => out = TermCase(args[2], args[1]))

\* C14: on every pair of expressions, of any class, unify returns a
\* substitution or the failure sentinel and never ends in an error.
C14_UnifyNeverRaises ==
    Returned => out.kind \in {"dict", "None"}

-----------------------------------------------------------------------------
(* Equality, printed form and hash of two expressions of any variant *)

\* 0-ary predicates, and And nested once on either side
AlgebraAtoms == {Atom("A"), Atom("B"), Atom("C")}

Conjunctions == {And(a, b) : a, b \in AlgebraAtoms}

AlgebraCases ==
    {Variable("x", 1), Term("x", 2), Variable("y", 3), Term("y", 4)} \cup
    {Functor("f", <<l>>) : l \in {Variable("x", 1), Term("x", 2)}} \cup
    {Functor("f", <<>>), Predicate("f", <<>>)} \cup
    {Predicate("P", <<l>>) : l \in {Variable("x", 1), Term("x", 2), Functor("f", <<>>)}} \cup
    AlgebraAtoms \cup
    {Not(a) : a \in AlgebraAtoms} \cup
    Conjunctions \cup
    {Or(a, b) : a, b \in AlgebraAtoms} \cup
    {Implies(a, b) : a, b \in AlgebraAtoms} \cup
    {And(a, b) : a \in Conjunctions, b \in AlgebraAtoms} \cup
    {And(a, b) : a \in AlgebraAtoms, b \in Conjunctions} \cup
    {Not(And(a, b)) : a, b \in {Atom("A"), Atom("B")}} \cup
    {And(Not(Atom("A")), b) : b \in AlgebraAtoms} \cup
    {ForAll(v, Predicate("P", <<l>>)) :
        v \in {Variable("x", 1), Variable("y", 3)}, l \in {Variable("x", 1), Term("x", 2)}} \cup
    {ThereExists(v, Predicate("P", <<l>>)) :
        v \in {Variable("x", 1), Variable("y", 3)}, l \in {Variable("x", 1), Term("x", 2)}}

InitAlgebra ==
    /\ Idle("compare")
    /\ \E a, b \in AlgebraCases : args = <<a, b>>
    /\ time = <<0, 0, 0, 0>>
    /\ born = <<0, 0, 0, 0>>

\* hash(self): TypeError for an object of an unhashable class
HashOrTypeError(self) == IF Hashable(self) THEN Hash(self) ELSE "TypeError"

\* a == b, str(a), str(b), hash(a), hash(b)
CallCompare ==
    /\ pc = "call"
    /\ input.name = "compare"
    /\ out' = [kind |-> "compare", map |-> <<>>,
               eq |-> Eq(args[1], args[2]),
               str_a |-> Str(args[1]), str_b |-> Str(args[2]),
               hash_a |-> HashOrTypeError(args[1]), hash_b |-> HashOrTypeError(args[2])]
    /\ pc' = "returned"
    /\ UNCHANGED <<input, frontier, proven, sibs, time, born, old_sequent, result, log, args>>

NextAlgebra == CallCompare

SpecAlgebra == InitAlgebra /\ [][NextAlgebra]_vars

\* C10: a == b holds if and only if a and b print identically, and two
\* expressions that print identically have equal hashes.
C10_EqualIffPrintedEqual ==
    input.name = "compare" /\ pc = "returned" =>
        /\ out.eq <=> out.str_a = out.str_b
        /\ out.str_a = out.str_b =>
              /\ out.hash_a # "TypeError"
              /\ out.hash_a = out.hash_b


-----------------------------------------------------------------------------
(* replace and occurs as functions: e.replace(current, new) on expressions of *)
(* every class, current and new being terms or formulas                       *)

\* the Term and Variable objects of the arguments; a Variable and a Term may
\* have the same name
ReplaceLeaves == {Term("t1", 1), Variable("x", 2), Variable("t1", 3)}

\* Functors up to two levels over the leaves and the constant a
ReplaceTerms ==
    ReplaceLeaves \cup {Const("a")} \cup
    {Functor("f", <<l>>) : l \in ReplaceLeaves \cup {Const("a")}} \cup
    {Functor("f", <<Functor("f", <<l>>)>>) : l \in {Const("a"), Term("t1", 1)}}

ReplaceAtoms == {Predicate("P", <<t>>) : t \in ReplaceTerms}

\* formulas of every class; the bound variable of a quantification is a
\* Variable, or a Term once a replace has rewritten it
ReplaceFormulas ==
    ReplaceAtoms \cup
    {Not(p) : p \in ReplaceAtoms} \cup
    {And(Predicate("P", <<l1>>), Predicate("Q", <<l2>>)) : l1, l2 \in ReplaceLeaves} \cup
    {Or(Predicate("P", <<l>>), Not(Predicate("P", <<l>>))) : l \in ReplaceLeaves} \cup
    {Implies(Predicate("P", <<l>>), Predicate("P", <<Functor("f", <<l>>)>>)) :
        l \in ReplaceLeaves} \cup
    {ForAll(b, Predicate("P", <<t>>)) :
        b \in {Variable("x", 2), Term("t1", 1)},
        t \in ReplaceLeaves \cup {Const("a"), Functor("f", <<Term("t1", 1)>>)}} \cup
    {ThereExists(b, Not(Predicate("P", <<l>>))) :
        b \in {Variable("x", 2), Term("t1", 1)}, l \in ReplaceLeaves}

\* the arguments current and new
ReplaceOperands ==
    ReplaceTerms \cup
    {Predicate("P", <<Term("t1", 1)>>), Predicate("P", <<Const("a")>>),
     Not(Predicate("P", <<Term("t1", 1)>>))}

InitReplace ==
    /\ Idle("replace")
    /\ \E e \in ReplaceTerms \cup ReplaceFormulas :
       \E current, new \in ReplaceOperands : args = <<e, current, new>>
    /\ time = <<0, 0, 0>>
    /\ born = <<0, 0, 0>>

\* once = e.replace(current, new); twice = once.replace(current, new); and
\* what occurs answers for current in e, in new and in once when current is
\* a Term
CallReplace ==
    /\ pc = "call"
    /\ input.name = "replace"
    /\ LET once == replace(args[1], args[2], args[3])
       IN  out' = [kind |-> "replace", map |-> <<>>,
                   once |-> once,
                   twice |-> replace(once, args[2], args[3]),
                   occurs_e |-> occurs(args[1], args[2]),
                   occurs_new |-> occurs(args[3], args[2]),
                   occurs_once |-> occurs(once, args[2])]
    /\ pc' = "returned"
    /\ UNCHANGED <<input, frontier, proven, sibs, time, born, old_sequent, result, log, args>>

NextReplace == CallReplace

SpecReplace == InitReplace /\ [][NextReplace]_vars

\* replace has returned on the arguments args = (e, current, new)
Replaced == input.name = "replace" /\ pc = "returned"

RECURSIVE Subexpression(_, _)
\* c is structurally equal to e or to a subexpression of e, a bound variable
\* included
Subexpression(c, e) ==
    Eq(e, c) \/ \E i \in 1..Len(e.kids) : Subexpression(c, e.kids[i])

\* C11: whenever c is not a subexpression of n, replacing c by n a second
\* time changes nothing, c being an expression of any class.
C11_ReplaceIdempotent ==
    Replaced /\ ~Subexpression(args[2], args[3]) => Eq(out.twice, out.once)

\* C11 for a leaf: whenever the Variable or Term c is not a subexpression of
\* n, replacing c by n a second time changes nothing, and the first replace
\* leaves no c behind.
C11_ReplaceIdempotentLeaf ==
    Replaced /\ IsAlphabet(args[2]) /\ ~Subexpression(args[2], args[3]) =>
        /\ Eq(out.twice, out.once)
        /\ ~Subexpression(args[2], out.once)

\* C11, its case: a Term was replaced, inside a quantification, by a Functor
\* that does not hold it
C11_Witness ==
    /\ Replaced
    /\ args[2].tag = "Term"
    /\ args[3].tag = "Functor"
    /\ ~Subexpression(args[2], args[3])
    /\ IsQuantification(args[1])
    /\ ~Eq(out.once, args[1])
    /\ Eq(out.twice, out.once)

\* C12: for a Term tau, replace(e, tau, v) holds no occurrence of tau if and
\* only if tau does not occur in e or does not occur in v.
C12_SubstitutionSound ==
    Replaced /\ args[2].tag = "Term" =>
        (~out.occurs_once <=> (~out.occurs_e \/ ~out.occurs_new))

\* C12, its case: tau occurred in the body of a quantification and not in the
\* Functor v, and is gone after the replace
C12_Witness ==
    /\ Replaced
    /\ args[2].tag = "Term"
    /\ IsQuantification(args[1])
    /\ args[3].tag = "Functor"
    /\ out.occurs_e
    /\ ~out.occurs_new
    /\ ~out.occurs_once

=============================================================================
